---- MODULE Spec2Model ----
(***************************************************************************)
(* A model of the chat session of src/src/copilot.rs: CopilotManager::new, *)
(* CopilotManager::construct_message_history and CopilotManager::ask, with *)
(* the streamed response decoded character by character as the read loop   *)
(* of ask decodes it.                                                      *)
(*                                                                         *)
(* Text is a sequence of one-character strings.  The JSON of a response    *)
(* is written in a reduced alphabet in which every fragment of the payload *)
(* that holds no white space, no newline and no "data:" is one symbol:     *)
(*      {   stands for   {"choices":[                                      *)
(*      <   stands for   {"index":..,"delta":{"content":                   *)
(*      |   stands for   ,"role":..},"finish_reason":                      *)
(*      >   stands for   }                                                 *)
(*      }   stands for   ],"created":..,"id":".."}                         *)
(*      _   stands for   null                                              *)
(* and a string value is written "..." character by character.  A cut of   *)
(* the byte stream inside such a fragment leaves the decoder in the same   *)
(* state as a cut at its end would after the next chunk, so the reduction  *)
(* loses no behaviour of replace, split, trim or the parser.  All text is  *)
(* ASCII, on which String::from_utf8_lossy is the identity.                *)
(***************************************************************************)
EXTENDS Integers, Sequences, FiniteSets, TLC

VARIABLES
    history,     \* self.history: the stored messages
    pc,          \* where the program is: idle, await, stopped, panicked
    req,         \* the local `history` of ask: the messages of the request
    wire,        \* the bytes the transport has not delivered yet
    message,     \* the local `message`: the content accumulated so far
    buffer,      \* the local `buffer`: the residual text
    returned,    \* the value the last completed ask returned
    asks,        \* the number of asks that have returned
    histAtCall,  \* self.history when the current ask was called
    frames,      \* the frames the upstream put on the wire for this ask
    chunking,    \* where the transport cuts: frame, payload, delimiter, any
    events,      \* the events decoded so far in this ask, in order
    stop,        \* how the read loop ended: none, break, eof
    log,         \* the prompts passed to ask and the contents it returned
    main,        \* where main is: cache_auth .. loop, exited, panicked
    config,      \* the token in the configuration file, "" if none
    polls,       \* the token checks of auth that answered pending
    authOutcome, \* what AuthenticationManager::auth did: none, ok, err, panic
    failure,     \* the step of the login that failed, none if none did
    reply,       \* what the last request of the login came to, none if none
    stdin,       \* the lines the user enters, in order
    nread,       \* the number of lines readline has returned
    asked        \* the lines main has passed to ask, in order

\* the state of main outside the chat session
mainVars == <<main, config, polls, authOutcome, failure, reply, stdin, nread, asked>>

\* the state of the chat session
sessionVars == <<history, pc, req, wire, message, buffer, returned, asks,
                 histAtCall, frames, chunking, events, stop, log>>

vars == <<sessionVars, mainVars>>

-----------------------------------------------------------------------------
(* Bounds *)

MaxAsks == 3
MaxFrames == 2
MaxPolls == 2

-----------------------------------------------------------------------------
(* Text *)

None == <<>>
Some(v) == <<v>>

\* F applied to the value of v, with v evaluated once
With(v, F(_)) == CHOOSE y \in {F(x) : x \in {v}} : TRUE

Quote == "\""
Newline == "\n"

IsSpace(c) == c \in {" ", "\n", "\t"}

DataToken == <<"d", "a", "t", "a", ":">>
DataPrefix == DataToken \o <<" ">>
FrameEnd == <<Newline, Newline>>
DoneLiteral == <<"[", "D", "O", "N", "E", "]">>

RECURSIVE Concat(_)
Concat(ss) == IF ss = <<>> THEN <<>> ELSE Head(ss) \o Concat(Tail(ss))

Drop(s, n) == SubSeq(s, n + 1, Len(s))

StartsWith(s, t) == Len(s) >= Len(t) /\ SubSeq(s, 1, Len(t)) = t

IsPrefix(s, t) == StartsWith(t, s)

\* str::replace("\n", "")
RemoveNewlines(s) == SelectSeq(s, LAMBDA c : c # Newline)

\* the first index at or after i that holds no white space, Len(s) + 1 if none
RECURSIVE SkipWs(_, _)
SkipWs(s, i) == IF i <= Len(s) /\ IsSpace(s[i]) THEN SkipWs(s, i + 1) ELSE i

\* the last index at or before i that holds no white space, 0 if none
RECURSIVE SkipWsBack(_, _)
SkipWsBack(s, i) == IF i >= 1 /\ IsSpace(s[i]) THEN SkipWsBack(s, i - 1) ELSE i

\* str::trim
Trim(s) == SubSeq(s, SkipWs(s, 1), SkipWsBack(s, Len(s)))

\* whether tok occurs in s at index i
OccursAt(s, tok, i) ==
    i + Len(tok) - 1 <= Len(s) /\ SubSeq(s, i, i + Len(tok) - 1) = tok

\* str::split(tok): the pieces between the occurrences of tok, empty ones kept;
\* the piece being scanned starts at index from, the scan is at index i
RECURSIVE SplitFrom(_, _, _, _)
SplitFrom(s, tok, from, i) ==
    IF i > Len(s) THEN <<SubSeq(s, from, Len(s))>>
    ELSE IF OccursAt(s, tok, i)
         THEN <<SubSeq(s, from, i - 1)>>
                  \o SplitFrom(s, tok, i + Len(tok), i + Len(tok))
         ELSE SplitFrom(s, tok, from, i + 1)

Split(s, tok) == SplitFrom(s, tok, 1, 1)

MapTrim(ss) == [i \in 1..Len(ss) |-> Trim(ss[i])]

-----------------------------------------------------------------------------
(* serde_json::from_str::<GhCopilotResponse> on the reduced alphabet *)

Fail == [ok |-> FALSE, val |-> None, next |-> 0]

CharAt(s, i) == IF i >= 1 /\ i <= Len(s) THEN s[i] ELSE "EOF"

\* the index of the closing quote of a string whose text starts at i, 0 if none
RECURSIVE StringEnd(_, _)
StringEnd(s, i) ==
    IF i > Len(s) THEN 0
    ELSE IF s[i] = Quote THEN i ELSE StringEnd(s, i + 1)

\* Option<String>: null or a string
ParseOption(s, i0) ==
    LET i == SkipWs(s, i0) IN
    IF CharAt(s, i) = "_" THEN [ok |-> TRUE, val |-> None, next |-> i + 1]
    ELSE IF CharAt(s, i) = Quote
         THEN LET j == StringEnd(s, i + 1) IN
              IF j = 0 THEN Fail
              ELSE [ok |-> TRUE, val |-> Some(SubSeq(s, i + 1, j - 1)), next |-> j + 1]
         ELSE Fail

\* the rest of a Choice after its content c: finish_reason and the closing
ParseChoiceEnd(s, c) ==
    LET k == SkipWs(s, c.next) IN
    IF CharAt(s, k) # "|" THEN Fail
    ELSE With(ParseOption(s, k + 1), LAMBDA f :
            IF ~f.ok THEN Fail
            ELSE LET m == SkipWs(s, f.next) IN
                 IF CharAt(s, m) # ">" THEN Fail
                 ELSE [ok |-> TRUE,
                       val |-> [content |-> c.val, finish |-> f.val],
                       next |-> m + 1])

\* Choice: delta.content and finish_reason
ParseChoice(s, i0) ==
    LET i == SkipWs(s, i0) IN
    IF CharAt(s, i) # "<" THEN Fail
    ELSE With(ParseOption(s, i + 1), LAMBDA c :
            IF ~c.ok THEN Fail ELSE ParseChoiceEnd(s, c))

\* Vec<Choice>
RECURSIVE ParseChoices(_, _, _)
ParseChoices(s, i0, acc) ==
    LET i == SkipWs(s, i0) IN
    IF CharAt(s, i) = "<"
    THEN With(ParseChoice(s, i), LAMBDA c :
            IF c.ok THEN ParseChoices(s, c.next, Append(acc, c.val)) ELSE Fail)
    ELSE [ok |-> TRUE, val |-> acc, next |-> i]

\* GhCopilotResponse: Ok only when the whole text is one response object
ParseResponse(s) ==
    LET i == SkipWs(s, 1) IN
    IF CharAt(s, i) # "{" THEN [ok |-> FALSE, choices |-> <<>>]
    ELSE With(ParseChoices(s, i + 1, <<>>), LAMBDA cs :
            IF ~cs.ok THEN [ok |-> FALSE, choices |-> <<>>]
            ELSE LET k == SkipWs(s, cs.next) IN
                 IF CharAt(s, k) = "}" /\ SkipWs(s, k + 1) = Len(s) + 1
                 THEN [ok |-> TRUE, choices |-> cs.val]
                 ELSE [ok |-> FALSE, choices |-> <<>>])

-----------------------------------------------------------------------------
(* The upstream: frames and the bytes they are sent as *)

EncodeOption(o) == IF o = None THEN <<"_">> ELSE <<Quote>> \o o[1] \o <<Quote>>

EncodeChoice(c) ==
    <<"<">> \o EncodeOption(c.content) \o <<"|">> \o EncodeOption(c.finish) \o <<">">>

EncodeResponse(choices) ==
    <<"{">> \o Concat([i \in 1..Len(choices) |-> EncodeChoice(choices[i])]) \o <<"}">>

Event(choices) == [kind |-> "event", choices |-> choices]
Done == [kind |-> "done", choices |-> <<>>]

Choice(content, finish) == [content |-> content, finish |-> finish]
Delta(text) == Event(<<Choice(Some(text), None)>>)
Finish == Event(<<Choice(None, Some(<<"s">>))>>)
DeltaFinish(text) == Event(<<Choice(Some(text), Some(<<"s">>))>>)
KeepAlive == Event(<<Choice(None, None)>>)
NoChoice == Event(<<>>)

\* an event of two choices, the second of which carries a delta
SecondChoice == Event(<<Choice(None, None), Choice(Some(<<"b">>), None)>>)

\* a delta event the upstream stopped writing before its last byte
Truncated == [kind |-> "truncated", choices |-> <<Choice(Some(<<"a">>), None)>>]

Payload(f) ==
    IF f.kind = "done" THEN DoneLiteral
    ELSE IF f.kind = "truncated"
         THEN SubSeq(EncodeResponse(f.choices), 1, Len(EncodeResponse(f.choices)) - 1)
         ELSE EncodeResponse(f.choices)

FrameBytes(f) == DataPrefix \o Payload(f) \o FrameEnd

WireOf(fs) == Concat([i \in 1..Len(fs) |-> FrameBytes(fs[i])])

\* the sequences over S of length 0..n
SeqsUpTo(S, n) == UNION {[1..k -> S] : k \in 0..n}

\* a delta that starts with white space, and one that holds the token data:
DeltaTexts == {<<" ", "b">>, DataToken}

\* the streams of a session of several asks, delivered frame by frame
SessionFrames == {Delta(<<"a">>), Done}
SessionStreams == SeqsUpTo(SessionFrames, MaxFrames)
SessionExchanges == SessionStreams \X {"frame"}

\* the streams of one exchange, delivered frame by frame or cut after any byte;
\* a stream of one event is also cut at every offset of its payload alone, and
\* such an event may be a delta whose text is the text of the sentinel
DecodeFrames ==
    {Delta(t) : t \in DeltaTexts} \cup {Finish, DeltaFinish(<<"a">>), KeepAlive, Done}
DecodeStreams == SeqsUpTo(DecodeFrames, MaxFrames)
SingleEvents ==
    {<<f>> : f \in (DecodeFrames \ {Done}) \cup {NoChoice, Delta(DoneLiteral)}}
\* two frames, cut at the frame boundary or anywhere in the delimiter between:
\* two events, or [DONE] and an event sent after it
DelimiterStreams ==
    {<<f, e>> : f \in {Delta(<<"a">>), Done}, e \in {Delta(<<"a">>), Finish}}

\* streams with a [DONE] frame after a finish_reason, after a payload that was
\* never completed, or after both, delivered frame by frame
StopStreams ==
    {<<Done>>, <<Finish, Done>>, <<Truncated, Done>>, <<Finish, Truncated, Done>>,
     <<Truncated, Done, Delta(<<"a">>)>>}

\* events that carry nothing in their first choice, alone or next to a delta,
\* delivered frame by frame
QuietFrames == {KeepAlive, NoChoice, SecondChoice}
QuietStreams == {<<f, g>> : f, g \in QuietFrames \cup {Delta(<<"a">>)}}

\* streams in which a payload is never completed and deltas follow it,
\* delivered frame by frame or cut after any byte
StallStreams ==
    {<<Truncated, Delta(<<"a">>)>>, <<Truncated, Delta(<<"a">>), Delta(<<"a">>)>>,
     <<Delta(<<"a">>), Truncated, Delta(<<"a">>)>>}
StallExchanges == StallStreams \X {"frame", "any"}

DecodeExchanges ==
    (DecodeStreams \X {"frame", "any"})
        \cup ((SingleEvents \cup {<<Done>>}) \X {"payload"})
        \cup (DelimiterStreams \X {"delimiter"})
        \cup ((StopStreams \cup QuietStreams) \X {"frame"})

Prompts == {<<"p">>, <<"q">>}

\* prompts::COPILOT_INSTRUCTIONS
SystemPrompt == <<"S">>

\* utils::read_config_file when no token is stored
NoToken == <<>>

\* the access token GitHub grants
Token == <<"t">>

\* what a request of the login can come to: a success with the body expected,
\* a response with a status that is no success, a failure of the transport
Replies == {"ok", "status", "fail"}

\* what the token check can come to: authorization_pending, the token, a
\* body that is neither (access_denied, expired_token), a transport failure
CheckReplies == {"pending", "token", "denied", "fail"}

\* the command that ends the loop of main
ExitLine == <<"e", "x", "i", "t">>

\* the lines a user enters: prompts, exit, and exit followed by a space
Lines == {<<"p">>, ExitLine, ExitLine \o <<" ">>}
Inputs == SeqsUpTo(Lines, MaxAsks)

\* the streams of the asks of main, delivered frame by frame
ReplExchanges == {<<Delta(<<"a">>), Done>>, <<>>} \X {"frame"}

-----------------------------------------------------------------------------
(* The session *)

Message(content, role) == [content |-> content, role |-> role]

\* construct_message_history: the system message, then the current history
construct_message_history(system_prompt, current_history) ==
    <<Message(system_prompt, "system")>> \o current_history

\* ask, up to the request body: the local history with the user prompt pushed
RequestMessages(h, prompt) ==
    Append(construct_message_history(SystemPrompt, h), Message(prompt, "user"))

\* ask, after the loop: the response pushed on the local history
ResponseMessage(content) == Message(content, "system")

\* the pieces of one chunk the for loop iterates over
ChunkLines(chunk) ==
    With(RemoveNewlines(chunk), LAMBDA body_str : MapTrim(Split(body_str, DataToken)))

\* OnEvent with a finish_reason ending the read loop
OnEventStopsOnFinish(resp, msg) ==
    [message |-> IF Len(resp.choices) > 0 /\ resp.choices[1].content # None
                 THEN msg \o resp.choices[1].content[1]
                 ELSE msg,
     break |-> Len(resp.choices) > 0 /\ resp.choices[1].finish # None]

\* OnEvent with the delta of every choice appended
OnEventAppendsEveryChoice(resp, msg) ==
    [message |-> msg \o Concat([i \in 1..Len(resp.choices) |->
                                  IF resp.choices[i].content # None
                                  THEN resp.choices[i].content[1]
                                  ELSE <<>>]),
     break |-> FALSE]

\* match json { Ok(json) => ... }: the new content, and whether the loop breaks
OnEvent(resp, msg) ==
    [message |-> IF Len(resp.choices) > 0 /\ resp.choices[1].content # None
                 THEN msg \o resp.choices[1].content[1]
                 ELSE msg,
     break |-> FALSE]

\* OnParseError without the break on [DONE]
OnParseErrorNeverBreaks(line) == FALSE

\* match json { Err(_e) => ... }: whether the loop breaks
OnParseError(line) == line = DoneLiteral

\* what a piece was decoded as, for the record: the event and its delta text
Decoded(kind, text) == [kind |-> kind, text |-> text]

EventOf(resp) ==
    IF Len(resp.choices) = 0 THEN Decoded("nochoice", <<>>)
    ELSE LET c == resp.choices[1] IN
         IF c.content # None /\ c.finish # None THEN Decoded("both", c.content[1])
         ELSE IF c.content # None THEN Decoded("delta", c.content[1])
         ELSE IF c.finish # None THEN Decoded("finish", <<>>)
         ELSE Decoded("keepalive", <<>>)

\* MatchParse with the buffer cleared when it does not parse
MatchParseDropsOnError(b, r, msg, evs, line) ==
    IF r.ok
    THEN [buffer |-> <<>>,
          message |-> OnEvent(r, msg).message,
          events |-> Append(evs, EventOf(r)),
          break |-> OnEvent(r, msg).break]
    ELSE [buffer |-> <<>>,
          message |-> msg,
          events |-> IF line = DoneLiteral
                     THEN Append(evs, Decoded("done", <<>>))
                     ELSE evs,
          break |-> OnParseError(line)]

\* the Ok and Err arms of the match on the parse r of the buffer b
MatchParse(b, r, msg, evs, line) ==
    IF r.ok
    THEN [buffer |-> <<>>,
          message |-> OnEvent(r, msg).message,
          events |-> Append(evs, EventOf(r)),
          break |-> OnEvent(r, msg).break]
    ELSE [buffer |-> b,
          message |-> msg,
          events |-> IF line = DoneLiteral
                     THEN Append(evs, Decoded("done", <<>>))
                     ELSE evs,
          break |-> OnParseError(line)]

\* one iteration of the for loop over a piece of the chunk
LineStep(buf, msg, evs, line) ==
    IF line = <<>>
    THEN [buffer |-> buf, message |-> msg, events |-> evs, break |-> FALSE]
    ELSE With(buf \o Trim(line), LAMBDA b :
            With(ParseResponse(b), LAMBDA r : MatchParse(b, r, msg, evs, line)))

\* the for loop over the pieces of one chunk, up to its end or the break
RECURSIVE FeedLines(_, _, _, _)
FeedLines(buf, msg, evs, ls) ==
    IF ls = <<>>
    THEN [buffer |-> buf, message |-> msg, events |-> evs, break |-> FALSE]
    ELSE With(LineStep(buf, msg, evs, Head(ls)), LAMBDA r :
            IF r.break THEN r
            ELSE FeedLines(r.buffer, r.message, r.events, Tail(ls)))

\* the offsets of the wire at which a frame starts or the wire ends
RECURSIVE FrameStarts(_, _)
FrameStarts(fs, at) ==
    IF fs = <<>> THEN {at}
    ELSE {at} \cup FrameStarts(Tail(fs), at + Len(FrameBytes(Head(fs))))

\* the offsets that lie in a payload, its two ends included
RECURSIVE PayloadOffsets(_, _)
PayloadOffsets(fs, at) ==
    IF fs = <<>> THEN {}
    ELSE LET lo == at + Len(DataPrefix)
             hi == lo + Len(Payload(Head(fs)))
         IN  (lo..hi) \cup PayloadOffsets(Tail(fs), at + Len(FrameBytes(Head(fs))))

\* the offsets that lie strictly inside the delimiter between two frames: the
\* two newlines that end one frame and the prefix that starts the next
RECURSIVE DelimiterOffsets(_, _)
DelimiterOffsets(fs, at) ==
    IF Len(fs) < 2 THEN {}
    ELSE LET lo == at + Len(DataPrefix) + Len(Payload(Head(fs)))
             hi == at + Len(FrameBytes(Head(fs))) + Len(DataPrefix)
         IN  ((lo + 1)..(hi - 1))
                 \cup DelimiterOffsets(Tail(fs), at + Len(FrameBytes(Head(fs))))

\* the offsets at which the transport may end a chunk: after whole frames only,
\* anywhere in a payload, anywhere in a delimiter between frames, or after
\* any byte
CutOffsets(fs, mode) ==
    IF mode = "frame" THEN FrameStarts(fs, 0)
    ELSE IF mode = "payload" THEN FrameStarts(fs, 0) \cup PayloadOffsets(fs, 0)
    ELSE IF mode = "delimiter" THEN FrameStarts(fs, 0) \cup DelimiterOffsets(fs, 0)
    ELSE 0..Len(WireOf(fs))

-----------------------------------------------------------------------------
(* Init and the actions *)

\* CopilotManager::new
SessionInit ==
    /\ history = <<>>
    /\ pc = "idle"
    /\ req = <<>>
    /\ wire = <<>>
    /\ message = <<>>
    /\ buffer = <<>>
    /\ returned = <<>>
    /\ asks = 0
    /\ histAtCall = <<>>
    /\ frames = <<>>
    /\ chunking = "frame"
    /\ events = <<>>
    /\ stop = "none"
    /\ log = <<>>

\* a session created by a caller that has authenticated
Init ==
    /\ SessionInit
    /\ main = "loop"
    /\ config = NoToken
    /\ polls = 0
    /\ authOutcome = "none"
    /\ failure = "none"
    /\ reply = "none"
    /\ stdin = <<>>
    /\ nread = 0
    /\ asked = <<>>

\* AskSend with the user turn pushed on self.history instead of the local copy
AskSendPushesUser(prompts, exchanges) ==
    /\ pc = "idle"
    /\ asks < MaxAsks
    /\ \E prompt \in prompts, x \in exchanges :
          /\ req' = RequestMessages(history, prompt)
          /\ history' = Append(history, Message(prompt, "user"))
          /\ log' = Append(log, prompt)
          /\ frames' = x[1]
          /\ wire' = WireOf(x[1])
          /\ chunking' = x[2]
    /\ histAtCall' = history
    /\ message' = <<>>
    /\ buffer' = <<>>
    /\ events' = <<>>
    /\ stop' = "none"
    /\ pc' = "await"
    /\ UNCHANGED <<returned, asks>>

\* AskSend with the request built from the new prompt alone
AskSendForgets(prompts, exchanges) ==
    /\ pc = "idle"
    /\ asks < MaxAsks
    /\ \E prompt \in prompts, x \in exchanges :
          /\ req' = RequestMessages(<<>>, prompt)
          /\ log' = Append(log, prompt)
          /\ frames' = x[1]
          /\ wire' = WireOf(x[1])
          /\ chunking' = x[2]
    /\ histAtCall' = history
    /\ message' = <<>>
    /\ buffer' = <<>>
    /\ events' = <<>>
    /\ stop' = "none"
    /\ pc' = "await"
    /\ UNCHANGED <<history, returned, asks>>

\* ask up to the first await of the stream: the request is built and sent
AskSend(prompts, exchanges) ==
    /\ pc = "idle"
    /\ asks < MaxAsks
    /\ \E prompt \in prompts, x \in exchanges :
          /\ req' = RequestMessages(history, prompt)
          /\ log' = Append(log, prompt)
          /\ frames' = x[1]
          /\ wire' = WireOf(x[1])
          /\ chunking' = x[2]
    /\ histAtCall' = history
    /\ message' = <<>>
    /\ buffer' = <<>>
    /\ events' = <<>>
    /\ stop' = "none"
    /\ pc' = "await"
    /\ UNCHANGED <<history, returned, asks>>

\* send().await.unwrap() on a request that cannot be sent: the process panics
SendFail ==
    /\ pc = "idle"
    /\ asks < MaxAsks
    /\ histAtCall' = history
    /\ req' = <<>>
    /\ frames' = <<>>
    /\ message' = <<>>
    /\ buffer' = <<>>
    /\ events' = <<>>
    /\ stop' = "none"
    /\ pc' = "panicked"
    /\ UNCHANGED <<history, wire, returned, asks, chunking, log>>

\* response.next().await yields a chunk: the body of the while let loop
ReadChunk ==
    /\ pc = "await"
    /\ wire # <<>>
    /\ \E at \in {Len(WireOf(frames)) - Len(wire)} :
       \E k \in {n \in 1..Len(wire) : at + n \in CutOffsets(frames, chunking)} :
       \E r \in {FeedLines(buffer, message, events, ChunkLines(SubSeq(wire, 1, k)))} :
          /\ wire' = Drop(wire, k)
          /\ buffer' = r.buffer
          /\ message' = r.message
          /\ events' = r.events
          /\ IF r.break
             THEN pc' = "stopped" /\ stop' = "break"
             ELSE pc' = "await" /\ stop' = stop
    /\ UNCHANGED <<history, req, returned, asks, histAtCall, frames, chunking,
                   log, mainVars>>

\* response.next().await yields an error: chunk.unwrap() panics
ReadFail ==
    /\ pc = "await"
    /\ pc' = "panicked"
    /\ req' = <<>>
    /\ wire' = <<>>
    /\ frames' = <<>>
    /\ message' = <<>>
    /\ buffer' = <<>>
    /\ chunking' = "frame"
    /\ UNCHANGED <<history, returned, asks, histAtCall, events, stop, log, mainVars>>

\* response.next().await yields None: the while let loop ends
StreamEnd ==
    /\ pc = "await"
    /\ wire = <<>>
    /\ pc' = "stopped"
    /\ stop' = "eof"
    /\ UNCHANGED <<history, req, wire, message, buffer, returned, asks,
                   histAtCall, frames, chunking, events, log, mainVars>>

\* Commit with a stream that ended without [DONE] treated as a failed exchange
CommitSkipsOnEof ==
    /\ pc = "stopped"
    /\ history' = IF stop = "eof" THEN history ELSE Append(req, ResponseMessage(message))
    /\ returned' = IF stop = "eof" THEN <<>> ELSE message
    /\ log' = Append(log, IF stop = "eof" THEN <<>> ELSE message)
    /\ asks' = asks + 1
    /\ pc' = "idle"
    /\ UNCHANGED <<req, wire, message, buffer, histAtCall, frames, chunking, events, stop,
                   mainVars>>

\* Commit with the two turns pushed on self.history, not on the request
CommitAppendsToSelf ==
    /\ pc = "stopped"
    /\ history' = history \o <<req[Len(req)], ResponseMessage(message)>>
    /\ returned' = message
    /\ log' = Append(log, message)
    /\ asks' = asks + 1
    /\ pc' = "idle"
    /\ UNCHANGED <<req, wire, message, buffer, histAtCall, frames, chunking, events, stop,
                   mainVars>>

\* Commit with a timeout: ask also returns while the stream is still open
CommitOnTimeout ==
    /\ pc \in {"stopped", "await"}
    /\ history' = Append(req, ResponseMessage(message))
    /\ returned' = message
    /\ log' = Append(log, message)
    /\ asks' = asks + 1
    /\ pc' = "idle"
    /\ UNCHANGED <<req, wire, message, buffer, histAtCall, frames, chunking, events, stop,
                   mainVars>>

\* ask after the loop: the response is pushed, self.history replaced, message returned
Commit ==
    /\ pc = "stopped"
    /\ history' = Append(req, ResponseMessage(message))
    /\ returned' = message
    /\ log' = Append(log, message)
    /\ asks' = asks + 1
    /\ pc' = "idle"
    /\ UNCHANGED <<req, wire, message, buffer, histAtCall, frames, chunking, events, stop,
                   mainVars>>

\* a session whose caller asks any prompt at any time
Next ==
    \/ AskSend(Prompts, SessionExchanges) /\ UNCHANGED mainVars
    \/ SendFail /\ UNCHANGED mainVars
    \/ ReadChunk
    \/ ReadFail
    \/ StreamEnd
    \/ Commit

Spec == Init /\ [][Next]_vars

\* a session whose caller asks one prompt again and again
LiveNext ==
    \/ AskSend({<<"p">>}, SessionExchanges) /\ UNCHANGED mainVars
    \/ SendFail /\ UNCHANGED mainVars
    \/ ReadChunk
    \/ ReadFail
    \/ StreamEnd
    \/ Commit

\* that session with a transport that goes on delivering what it holds and
\* closes every stream, and a program that goes on running
LiveSpec ==
    /\ Init
    /\ [][LiveNext]_vars
    /\ WF_vars(ReadChunk)
    /\ WF_vars(StreamEnd)
    /\ WF_vars(Commit)

\* one exchange of a fresh session, over the full set of frames
AskFirst ==
    history = <<>> /\ AskSend({<<"p">>}, DecodeExchanges) /\ UNCHANGED mainVars

DecodeNext ==
    \/ AskFirst
    \/ SendFail /\ UNCHANGED mainVars
    \/ ReadChunk
    \/ ReadFail
    \/ StreamEnd
    \/ Commit

DecodeSpec == Init /\ [][DecodeNext]_vars

\* one exchange of a fresh session, over the streams with a payload that is
\* never completed
AskStall ==
    history = <<>> /\ AskSend({<<"p">>}, StallExchanges) /\ UNCHANGED mainVars

StallNext ==
    \/ AskStall
    \/ SendFail /\ UNCHANGED mainVars
    \/ ReadChunk
    \/ ReadFail
    \/ StreamEnd
    \/ Commit

StallSpec == Init /\ [][StallNext]_vars

-----------------------------------------------------------------------------
(* main: the login of gh.rs, then the loop of main.rs *)

\* an unwrap() of a failed step: the program panics; inAuth tells whether the
\* step was made by AuthenticationManager::auth
Panic(step, inAuth) ==
    /\ main' = "panicked"
    /\ failure' = step
    /\ authOutcome' = IF inAuth THEN "panic" ELSE authOutcome

\* cache_auth: the configuration file is read; a stored token skips the login
CacheAuth ==
    /\ main = "cache_auth"
    /\ main' = IF config # NoToken THEN "cached_user" ELSE "request"
    /\ UNCHANGED <<sessionVars, config, polls, authOutcome, failure, reply,
                   stdin, nread, asked>>

\* cache_auth: gh_get_user(&auth).await.unwrap() with the stored token
CachedUser ==
    /\ main = "cached_user"
    /\ \E r \in Replies :
          reply' = r /\
          IF r = "ok"
          THEN main' = "cached_copilot" /\ UNCHANGED <<failure, authOutcome>>
          ELSE Panic("cached_user", FALSE)
    /\ UNCHANGED <<sessionVars, config, polls, stdin, nread, asked>>

\* cache_auth: gh_copilot_authenticate(&auth).await.unwrap() with the stored
\* token, then Ok(auth), which main unwraps
CachedCopilot ==
    /\ main = "cached_copilot"
    /\ \E r \in Replies :
          reply' = r /\
          IF r = "ok"
          THEN main' = "loop" /\ UNCHANGED <<failure, authOutcome>>
          ELSE Panic("cached_copilot", FALSE)
    /\ UNCHANGED <<sessionVars, config, polls, stdin, nread, asked>>

\* auth: request_github_auth().await?, which unwraps the send and the body
RequestAuth ==
    /\ main = "request"
    /\ \E r \in Replies :
          reply' = r /\
          IF r = "ok"
          THEN main' = "poll" /\ UNCHANGED <<failure, authOutcome>>
          ELSE Panic("request", TRUE)
    /\ UNCHANGED <<sessionVars, config, polls, stdin, nread, asked>>

\* auth: one turn of the loop around check_github_auth, which returns Err(())
\* on authorization_pending and unwraps everything else
CheckAuth ==
    /\ main = "poll"
    /\ \E r \in CheckReplies :
          reply' = r /\
          IF r = "pending"
          THEN /\ polls < MaxPolls
               /\ polls' = polls + 1
               /\ UNCHANGED <<main, failure, authOutcome>>
          ELSE IF r = "token"
          THEN main' = "user" /\ UNCHANGED <<polls, failure, authOutcome>>
          ELSE Panic("check", TRUE) /\ polls' = polls
    /\ UNCHANGED <<sessionVars, config, stdin, nread, asked>>

\* auth: gh_get_user(&auth).await.unwrap()
GetUser ==
    /\ main = "user"
    /\ \E r \in Replies :
          reply' = r /\
          IF r = "ok"
          THEN main' = "copilot" /\ UNCHANGED <<failure, authOutcome>>
          ELSE Panic("user", TRUE)
    /\ UNCHANGED <<sessionVars, config, polls, stdin, nread, asked>>

\* auth: gh_copilot_authenticate(&auth).await.unwrap(), then return Ok(..)
CopilotAuth ==
    /\ main = "copilot"
    /\ \E r \in Replies :
          reply' = r /\
          IF r = "ok"
          THEN main' = "write_config" /\ authOutcome' = "ok" /\ failure' = failure
          ELSE Panic("copilot", TRUE)
    /\ UNCHANGED <<sessionVars, config, polls, stdin, nread, asked>>

\* cache_auth after auth().await.unwrap(): the token is written to the
\* configuration file and Ok(auth) returned, which main unwraps
WriteConfig ==
    /\ main = "write_config"
    /\ config' = Token
    /\ main' = "loop"
    /\ UNCHANGED <<sessionVars, polls, authOutcome, failure, reply, stdin, nread, asked>>

\* IsExit with the line trimmed before the comparison
IsExitTrimmed(line) == Trim(line) = ExitLine

\* input == "exit"
IsExit(line) == line = ExitLine

\* one turn of the loop of main: readline returns a line; exit breaks the loop
\* and main returns, any other line is passed to ask, which runs to its first
\* await
ReadLine ==
    /\ main = "loop"
    /\ pc = "idle"
    /\ nread < Len(stdin)
    /\ nread' = nread + 1
    /\ \E input \in {stdin[nread + 1]} :
          IF IsExit(input)
          THEN main' = "exited" /\ asked' = asked /\ UNCHANGED sessionVars
          ELSE /\ main' = main
               /\ asked' = Append(asked, input)
               /\ (AskSend({input}, ReplExchanges) \/ SendFail)
    /\ UNCHANGED <<config, polls, authOutcome, failure, reply, stdin>>

\* readline returns Err at the end of the input: unwrap() panics
ReadLineFail ==
    /\ main = "loop"
    /\ pc = "idle"
    /\ nread = Len(stdin)
    /\ main' = "panicked"
    /\ UNCHANGED <<sessionVars, config, polls, authOutcome, failure, reply,
                   stdin, nread, asked>>

\* main starts with the configuration file and the input it will be given
MainInit ==
    /\ SessionInit
    /\ main = "cache_auth"
    /\ config \in {NoToken, Token}
    /\ polls = 0
    /\ authOutcome = "none"
    /\ failure = "none"
    /\ reply = "none"
    /\ stdin \in Inputs
    /\ nread = 0
    /\ asked = <<>>

MainNext ==
    \/ CacheAuth
    \/ CachedUser
    \/ CachedCopilot
    \/ RequestAuth
    \/ CheckAuth
    \/ GetUser
    \/ CopilotAuth
    \/ WriteConfig
    \/ ReadLine
    \/ ReadLineFail
    \/ ReadChunk
    \/ ReadFail
    \/ StreamEnd
    \/ Commit

MainSpec == MainInit /\ [][MainNext]_vars

-----------------------------------------------------------------------------
(* Properties *)

Last(s) == s[Len(s)]

\* the delta texts of the decoded events, concatenated in order
RECURSIVE DeltasOf(_)
DeltasOf(evs) ==
    IF evs = <<>> THEN <<>>
    ELSE (IF Head(evs).kind \in {"delta", "both"} THEN Head(evs).text ELSE <<>>)
             \o DeltasOf(Tail(evs))

HasEvent(kind) == \E i \in 1..Len(events) : events[i].kind = kind

\* the read loop has ended the only ways it can: the break on [DONE], or the
\* transport closing the stream after its last byte
EndedByDoneOrEof ==
    pc = "stopped" =>
        \/ stop = "break" /\ events # <<>> /\ Last(events).kind = "done"
        \/ stop = "eof" /\ wire = <<>>

\* C1: after N asks that returned, History has length 1 + 2N and its turns
\* from index 1 on alternate user, assistant, user, assistant, ...  (Stated for
\* N >= 1, so that the behaviour that refutes it holds an ask; for N = 0 the
\* History of a new CopilotManager is empty, of length 0.)
C1_HistoryAppendOnce ==
    (pc = "idle" /\ asks >= 1) =>
        /\ Len(history) = 1 + 2 * asks
        /\ \A i \in 2..Len(history) :
              history[i].role = (IF i % 2 = 0 THEN "user" ELSE "assistant")

\* C2: the messages of every request hold exactly one system turn, and it is
\* the first one
C2_OneSystemTurnFirst ==
    pc \in {"await", "stopped"} =>
        /\ req[1].role = "system"
        /\ \A i \in 2..Len(req) : req[i].role # "system"

\* C3: a single event payload cut into chunks at any offsets of the payload
\* decodes to the same event, with the same delta text, as the payload fed in
\* one chunk
C3_Reassembly ==
    (Len(frames) = 1 /\ frames[1].kind = "event" /\ chunking = "payload"
        /\ pc = "stopped" /\ stop = "eof") =>
        \E whole \in {FeedLines(<<>>, <<>>, <<>>, ChunkLines(WireOf(frames)))} :
            /\ events = whole.events
            /\ message = whole.message

IsDelta(f) ==
    /\ f.kind = "event"
    /\ Len(f.choices) = 1
    /\ f.choices[1].content # None
    /\ f.choices[1].finish = None

\* C4: for a stream of delta events delivered as complete frames, one or several
\* to a chunk, the content ask returns is the delta texts concatenated in
\* arrival order
C4_OrderedConcatenation ==
    (pc = "idle" /\ asks > 0 /\ chunking = "frame"
        /\ \A i \in 1..Len(frames) : IsDelta(frames[i])) =>
        returned = Concat([i \in 1..Len(frames) |-> frames[i].choices[1].content[1]])

\* C5: from the call of ask to the end of its read loop, and when the
\* transport fails in between, History is what it was before the call
C5_NoCommitBeforeLoopEnd ==
    pc \in {"await", "stopped", "panicked"} => history = histAtCall

\* C5 witness: the transport failed after two delta events of the second ask
C5_Witness ==
    /\ pc = "panicked"
    /\ asks = 1
    /\ Len(events) = 2
    /\ \A i \in 1..2 : events[i].kind = "delta"
    /\ history = histAtCall
    /\ Len(history) = 3

\* C6: once [DONE] has been decoded nothing after it is processed: it is the
\* last thing decoded, the read loop has ended, and the content returned is
\* that of the deltas decoded before it
C6_SentinelPriority ==
    HasEvent("done") =>
        /\ Last(events).kind = "done"
        /\ \A i \in 1..(Len(events) - 1) : events[i].kind # "done"
        /\ pc \in {"stopped", "idle"}
        /\ stop = "break"
        /\ message = DeltasOf(events)
        /\ pc = "idle" => returned = message

\* C6 witness: a delta event followed [DONE] in the same chunk and was dropped
C6_Witness ==
    /\ pc = "idle"
    /\ frames = <<Done, Delta(<<" ", "b">>)>>
    /\ wire = <<>>
    /\ stop = "break"
    /\ events = <<Decoded("done", <<>>)>>
    /\ returned = <<>>

C9_StreamEndCompletes ==
    /\ (pc = "stopped" /\ stop = "eof") => ENABLED Commit
    /\ (pc = "idle" /\ asks > 0 /\ stop \in {"eof", "break"}) =>
          /\ returned = message
          /\ message = DeltasOf(events)
          /\ history = Append(req, ResponseMessage(returned))
          /\ Len(history) = Len(histAtCall) + 3
          /\ history[Len(history) - 1].role = "user"

\* C9 witness: a stream with no frame at all ended and the ask returned ""
C9_Witness ==
    /\ pc = "idle"
    /\ asks = 2
    /\ stop = "eof"
    /\ frames = <<>>
    /\ returned = <<>>
    /\ Len(history) = 6

\* C10: the History before an ask is a prefix of the History after it
C10_AppendOnly ==
    (pc = "idle" /\ asks > 0) => IsPrefix(histAtCall, history)

\* C11: History is never empty, its first turn is the system turn and no
\* other turn has role system.  (Stated for the states after an ask has
\* returned, so that the behaviour that refutes it holds an ask; the History
\* of a new CopilotManager is empty and holds no system turn at all.)
C11_SystemTurnFirstOnly ==
    asks >= 1 =>
        /\ history # <<>>
        /\ history[1].role = "system"
        /\ \A i \in 2..Len(history) : history[i].role # "system"

Contents(ms) == [i \in 1..Len(ms) |-> ms[i].content]

\* whether xs is ys with some elements left out
RECURSIVE IsSubsequence(_, _)
IsSubsequence(xs, ys) ==
    IF xs = <<>> THEN TRUE
    ELSE IF ys = <<>> THEN FALSE
    ELSE IF Head(xs) = Head(ys) THEN IsSubsequence(Tail(xs), Tail(ys))
    ELSE IsSubsequence(xs, Tail(ys))

Delivered == Len(WireOf(frames)) - Len(wire)

\* the offset at which the payload of the first frame is complete
PayloadEnd == Len(DataPrefix) + Len(Payload(frames[1]))

\* C13: an incomplete payload is never turned into an event.  For a stream of
\* one event cut anywhere in its payload: while the payload is incomplete no
\* event is decoded, the content is empty and the text received is kept in
\* the buffer; once the payload is complete the event has been decoded, one
\* event of the kind that was sent, and the buffer is empty.  (The delta text
\* of that event is the matter of C3 and C17 and is not compared here.)
C13_IncompleteRetained ==
    (Len(frames) = 1 /\ frames[1].kind = "event" /\ chunking = "payload") =>
        /\ (pc = "await" /\ Delivered < PayloadEnd) =>
              /\ events = <<>>
              /\ message = <<>>
              /\ Delivered > Len(DataPrefix) => buffer # <<>>
        /\ (pc \in {"await", "stopped"} /\ Delivered >= PayloadEnd) =>
              /\ Len(events) = 1
              /\ events[1].kind = EventOf(frames[1]).kind
              /\ buffer = <<>>
        /\ pc = "stopped" => Delivered >= PayloadEnd

\* C14: a transport failure during ask, on sending the request or on reading
\* a chunk, is returned to the caller as a failure: it never terminates the
\* program
C14_TransportFailureSurfaced ==
    pc # "panicked"

\* the lines readline has returned so far
LinesRead == SubSeq(stdin, 1, nread)

\* the lines of ls before its first exit, all of ls if it holds none
RECURSIVE BeforeExit(_)
BeforeExit(ls) ==
    IF ls = <<>> \/ Head(ls) = ExitLine THEN <<>>
    ELSE <<Head(ls)>> \o BeforeExit(Tail(ls))

\* the prompts ask has built a request for, in order
LogPrompts == [i \in 1..((Len(log) + 1) \div 2) |-> log[2 * i - 1]]

\* C15: in the loop of main, ask has been called exactly once, in input order,
\* for every line read before the first line equal to exit; exit is never
\* passed to ask, the loop ends on it, and nothing is read or asked after it
C15_ReplAsksEachLineOnce ==
    /\ asked = BeforeExit(LinesRead)
    /\ \A i \in 1..(nread - 1) : stdin[i] # ExitLine
    /\ main = "exited" <=> (nread >= 1 /\ stdin[nread] = ExitLine)
    /\ main = "exited" => pc = "idle"
    /\ IsPrefix(LogPrompts, asked)
    /\ Len(asked) <= Len(LogPrompts) + 1
    /\ pc # "panicked" => LogPrompts = asked

\* C15 witness: main has returned on exit after asking a prompt and a line
\* that is exit followed by a space
C15_Witness ==
    /\ main = "exited"
    /\ stdin = <<<<"p">>, ExitLine \o <<" ">>, ExitLine>>
    /\ asked = <<<<"p">>, ExitLine \o <<" ">>>>
    /\ asks = 2
    /\ LogPrompts = asked

\* the steps AuthenticationManager::auth makes
AuthSteps == {"request", "check", "user", "copilot"}

\* C16: auth returns Err whenever a step of the login fails (the device-code
\* request, the token check, fetching the user, the Copilot token exchange),
\* and Ok only when every step succeeded
C16_AuthReturnsErrOnFailure ==
    /\ failure \in AuthSteps => (authOutcome = "err" /\ main # "panicked")
    /\ authOutcome = "ok" => failure = "none"

\* C17: an event whose delta text holds the token data: is decoded as one
\* event with the text that was sent, and ask returns that text
C17_DelimiterInString ==
    (pc = "idle" /\ asks > 0 /\ chunking = "frame" /\ frames = <<Delta(DataToken)>>) =>
        /\ events = <<Decoded("delta", DataToken)>>
        /\ returned = DataToken

\* the decoder fed the frames fs one frame to a chunk
RECURSIVE FeedFrames(_, _)
FeedFrames(st, fs) ==
    IF fs = <<>> \/ st.break THEN st
    ELSE With(FeedLines(st.buffer, st.message, st.events, ChunkLines(FrameBytes(Head(fs)))),
              LAMBDA r : FeedFrames(r, Tail(fs)))

FrameByFrame(fs) ==
    FeedFrames([buffer |-> <<>>, message |-> <<>>, events |-> <<>>, break |-> FALSE], fs)

\* C18: when chunk boundaries fall inside the delimiter between two complete
\* events, both events are decoded and the content is the same as when the
\* boundary falls between the frames
C18_CutInDelimiter ==
    (chunking = "delimiter" /\ pc = "stopped" /\ stop = "eof"
        /\ \A i \in 1..Len(frames) : frames[i].kind = "event") =>
        \E whole \in {FrameByFrame(frames)} :
            /\ Len(events) = 2
            /\ events = whole.events
            /\ message = whole.message

\* C19: when [DONE] is cut across chunks it is recognised once its last byte
\* has arrived: the read loop has stopped on it and reads no further chunk
C19_SplitSentinel ==
    (frames = <<Done>> /\ chunking = "payload" /\ Delivered >= PayloadEnd
        /\ pc # "panicked") =>
        /\ pc \in {"stopped", "idle"}
        /\ stop = "break"

\* the offset at which the i-th frame of the stream has been delivered whole
FrameEndOffset(i) == Len(WireOf(SubSeq(frames, 1, i)))

\* whether the i-th frame is [DONE] and has arrived whole, in one chunk: in a
\* stream cut between frames, or as the first frame of a stream whose first
\* chunk holds it all
WholeDone(i) ==
    /\ frames[i] = Done
    /\ Delivered >= FrameEndOffset(i)
    /\ chunking = "frame" \/ (chunking = "delimiter" /\ i = 1)

\* C20: a [DONE] frame delivered whole ends the read loop whatever came
\* before it: with the buffer empty or holding text that never parsed, with or
\* without a finish_reason seen
C20_WholeSentinelStops ==
    (pc # "panicked" /\ \E i \in 1..Len(frames) : WholeDone(i)) =>
        /\ pc \in {"stopped", "idle"}
        /\ stop = "break"
        /\ Last(events).kind = "done"

\* the part of C20 for chunks that end at a frame boundary
C20_AtFrameBoundary ==
    chunking = "frame" => C20_WholeSentinelStops

\* the delta text of the first choice of a frame, "" if it carries none
FirstChoiceText(f) ==
    IF f.kind = "event" /\ Len(f.choices) > 0 /\ f.choices[1].content # None
    THEN f.choices[1].content[1]
    ELSE <<>>

\* the number of frames delivered, in a stream delivered frame by frame
FramesDelivered == CHOOSE k \in 0..Len(frames) : FrameEndOffset(k) = Delivered

\* C21: an event whose first choice (choices[0]) carries no delta and no
\* finish_reason, or whose list of choices is empty, is decoded, leaves the
\* content unchanged and does not end the read loop; the delta of a choice
\* after the first is never appended
C21_QuietEvents ==
    (chunking = "frame" /\ frames \in QuietStreams /\ pc \in {"await", "stopped"}) =>
        \E k \in {FramesDelivered} :
            /\ Len(events) = k
            /\ message = Concat([i \in 1..k |-> FirstChoiceText(frames[i])])
            /\ \A i \in 1..k :
                  frames[i] \in QuietFrames =>
                      /\ events[i].kind \in {"keepalive", "nochoice"}
                      /\ events[i].text = <<>>
            /\ pc = "stopped" => (stop = "eof" /\ k = Len(frames))

\* C21 witness: a delta was appended after an event whose second choice
\* carried a delta, and only the first was
C21_Witness ==
    /\ frames = <<SecondChoice, Delta(<<"a">>)>>
    /\ pc = "stopped"
    /\ stop = "eof"
    /\ events = <<Decoded("keepalive", <<>>), Decoded("delta", <<"a">>)>>
    /\ message = <<"a">>

\* the requests cache_auth makes with the stored token
CachedSteps == {"cached_user", "cached_copilot"}

\* C22: when the upstream rejects the stored token (the user lookup or the
\* Copilot token exchange made with it answers with a status that is no
\* success) the program does not crash: it goes on to the device-code login
C22_RejectedTokenReauthenticates ==
    (failure \in CachedSteps /\ reply = "status") => main # "panicked"

\* C23: an ask returns, and commits, only once the transport has ended the
\* stream or [DONE] has been recognised, and then it does; while the stream is
\* open nothing but the transport lets it go on, so that a stream that stalls
\* suspends it for ever; with a transport that delivers and closes every
\* stream, and does not fail, every ask returns
C23_ReturnsOnStreamEnd ==
    /\ [](pc = "await" => ~ENABLED Commit)
    /\ [](pc = "stopped" => (stop \in {"eof", "break"} /\ EndedByDoneOrEof /\ ENABLED Commit))
    /\ [][asks' # asks => (pc = "stopped" /\ pc' = "idle" /\ asks' = asks + 1)]_vars
    /\ ([](pc # "panicked") => (pc = "await" ~> pc = "idle"))

\* C23 witness: the third ask returned after [DONE] was recognised
C23_Witness ==
    /\ pc = "idle"
    /\ asks = 3
    /\ stop = "break"
    /\ frames = <<Delta(<<"a">>), Done>>
    /\ returned = <<"a">>

\* C24: after an ask has completed, History is the messages of the request
\* that ask sent, all of them and in their order, followed by one message
\* whose content is the string the ask returned, and nothing else
C24_HistoryIsRequestPlusResponse ==
    (pc = "idle" /\ asks > 0) =>
        /\ req = RequestMessages(histAtCall, log[Len(log) - 1])
        /\ Len(history) = Len(req) + 1
        /\ SubSeq(history, 1, Len(req)) = req
        /\ Last(history).content = returned
        /\ returned = Last(log)

\* C24 witness: the second ask returned "aa" and History is its request of
\* five messages and the response
C24_Witness ==
    /\ pc = "idle"
    /\ asks = 2
    /\ returned = <<"a", "a">>
    /\ Len(req) = 5
    /\ history = Append(req, Message(<<"a", "a">>, "system"))

\* the place in the stream of the payload that is never completed
TruncatedAt == CHOOSE i \in 1..Len(frames) : frames[i] = Truncated

\* what holds of an exchange with such a payload: only events sent before it
\* are decoded and only their deltas are in the content; once a byte of it has
\* arrived the buffer is never empty again; delivered frame by frame, the
\* buffer is that payload followed by every payload delivered after it
StalledByResidual ==
    (frames \in StallStreams /\ pc # "panicked") =>
        /\ message = DeltasOf(events)
        /\ Len(events) <= TruncatedAt - 1
        /\ \A i \in 1..Len(events) : events[i] = Decoded("delta", <<"a">>)
        /\ Delivered > FrameEndOffset(TruncatedAt - 1) + Len(DataPrefix) => buffer # <<>>
        /\ chunking = "frame" =>
              \E k \in {FramesDelivered} :
                  /\ Len(events) = IF k < TruncatedAt THEN k ELSE TruncatedAt - 1
                  /\ buffer = Concat([i \in 1..(k - TruncatedAt + 1) |->
                                          Payload(frames[TruncatedAt + i - 1])])
        /\ (pc = "idle" /\ asks > 0) => returned = message

\* a step of the read loop empties the buffer, or adds to the content, only
\* if it decoded an event
GrowsOnlyAtParse ==
    (pc = "await" /\ pc' \in {"await", "stopped"}) =>
        ((message' # message \/ (buffer # <<>> /\ buffer' = <<>>)) =>
            \E i \in (Len(events) + 1)..Len(events') : events'[i].kind # "done")

\* C25: within one ask the buffer is emptied only by a parse that succeeds and
\* the content grows only at such a parse; so once the buffer holds a payload
\* that was never completed and the next one after it, every delta event that
\* arrives later is appended to the buffer and adds nothing to the content
\* ask returns
C25_ResidualStalls ==
    []StalledByResidual /\ [][GrowsOnlyAtParse]_vars

\* C25 witness: ask returned the delta sent before the payload that was never
\* completed, and the delta sent after it is in the buffer
C25_Witness ==
    /\ frames = <<Delta(<<"a">>), Truncated, Delta(<<"a">>)>>
    /\ chunking = "frame"
    /\ pc = "idle"
    /\ asks = 1
    /\ returned = <<"a">>
    /\ buffer = Payload(Truncated) \o Payload(Delta(<<"a">>))

====
